---- MODULE Spec2Model ----
(***************************************************************************)
(* Model of the measuring scripts of tblawson/Keithley6430:                *)
(*   R_input.py                 input-resistance procedure (step 2)        *)
(*   Ib_Rin.py                  bias-current procedure (step 1)            *)
(*   Keithley6430source-cal.py  calibration of the 6430 current source     *)
(*   Input-Z.py                 earlier bias-current script                *)
(* Each script is a sequential program; pc is its position.  One script    *)
(* runs per behaviour (variable script), once or several times over the    *)
(* same results file (variable run).  Numbers are integers or exact        *)
(* rationals <<numerator, denominator>>; a zero denominator is a NaN.      *)
(***************************************************************************)
EXTENDS Integers, Sequences, FiniteSets, TLC

VARIABLES
    script,      \* which script this behaviour runs
    pc,          \* position in the script
    exc,         \* name of the uncaught exception that ended the script, or "none"
    results,     \* the in-memory result store (dict: key -> entry)
    file,        \* the results file: <<>> when absent, <<dict>> when present
    ib_file,     \* the Ib handoff file read by R_input.py: <<>> or <<dict>>
    ntests,      \* tests started so far, in all runs
    R_name,      \* R_input.py / Ib_Rin.py: resistor selected by the operator
    Vset,        \* nominal magnitude of the test (Vset, or i_set in the source calibration)
    m_call,      \* which call of measure() is running: "V", "Vs", "cal", "none"
    step,        \* index into POLARITY_MASK of the current step (0: not in the loop)
    pol,         \* loop variable pol of measure()
    v_src,       \* signed setpoint of the current step (v_src / i_src)
    n,           \* readings taken so far in the current step (loop variable n)
    readings,    \* measure()'s local dict of reading lists, keyed -1, 0, 1
    src,         \* state of the source: [level, oper]
    azero,       \* DVM autozero mode: "ON" (continuous) or "ONCE"
    gain,        \* environment: nominal DVM reading per unit of setpoint
    offset,      \* environment: drift offset of the DVM during this acquisition
    dvm_fault,   \* environment: per polarity "ok", "spiky" or "overload"
    visited,     \* history: <<pol, setpoint>> of every step begun in this acquisition
    len0,        \* history: length of readings[pol] when the current step began
    ndisc,       \* history: readings discarded in the current step
    step_reads,  \* history: every value dvm.read() returned in the current step
    log,         \* history: <<pol of the step, reading>> of every accepted reading
    V_readings,  \* R_input.py: result of measure(R_name, Vset); <<>> when unbound
    Vs_readings, \* R_input.py: result of measure('short', Vset); <<>> when unbound
    calc,        \* R_input.py: the reduced quantities of lines 228-238; <<>> when unbound
    Rin,         \* R_input.py: [Rin, Rin_approx] degrees of freedom; <<>> when unbound
    test_dict,   \* source calibration: the test parameters passed to measure()
    i_readings,  \* source calibration: readings of a high-current test; <<>> when unbound
    I_drift,     \* source calibration: zero drift of a high-current test; <<>> when unbound
    v_readings,  \* source calibration: readings of a low-current test; <<>> when unbound
    cal,         \* source calibration: reduced quantities of lines 290-297; <<>> when unbound
    run,         \* runs of the script started so far (a run is one process)
    failed_open, \* instruments whose open_resource failed in this run ("dvm", "src")
    late_cmds,   \* history: commands written to an instrument after a failed open
    inv_R,       \* fit: names of the entries used as regression points; <<>> when unbound
    nreads       \* history: calls of dvm.read() in this acquisition

vars == <<script, pc, exc, results, file, ib_file, ntests, R_name, Vset, m_call,
          step, pol, v_src, n, readings, src, azero, gain, offset, dvm_fault,
          visited, len0, ndisc, step_reads, log, V_readings, Vs_readings, calc,
          Rin, test_dict, i_readings, I_drift, v_readings, cal,
          run, failed_open, late_cmds, inv_R, nreads>>

(***************************************************************************)
(* Bounds of the model.                                                    *)
(***************************************************************************)
\* Readings per step.  The scripts set N_READINGS = 10 (R_input.py:30,
\* Keithley6430source-cal.py:21); the model runs the same loop over fewer.
N_READINGS == 2
\* Tests the runs of a script may start, all runs together.
MaxTests == 2
\* Runs of a script, one after the other on the same results file.
MaxRuns == 2

(***************************************************************************)
(* Program constants.                                                      *)
(***************************************************************************)
POLARITY_MASK == <<0, 1, -1, 0, -1, 1, 0>>

Polarities == {-1, 0, 1}

\* Resistors the operator can select (keys of DELAYS and of RESISTORS).
R_NAMES == {"G493 100k", "C 1G"}

(***************************************************************************)
(* Python values.                                                          *)
(***************************************************************************)
None == <<>>
Some(x) == <<x>>
Bound(v) == v # <<>>
Val(v) == v[1]

EmptyDict == [k \in {} |-> TRUE]
DictUpdate(d, k, v) == [x \in (DOMAIN d) \cup {k} |-> IF x = k THEN v ELSE d[x]]

Abs(x) == IF x < 0 THEN -x ELSE x

RECURSIVE GCD(_, _)
GCD(a, b) == IF b = 0 THEN a ELSE GCD(b, a % b)

\* Exact rationals in lowest terms; <<0, 0>> is NaN.
NaN == <<0, 0>>
IsNaN(a) == a[2] = 0
Rat(num, den) ==
    IF den = 0 THEN NaN
    ELSE LET s == IF den < 0 THEN -1 ELSE 1
             g == GCD(Abs(num), Abs(den))
         IN  <<(s * num) \div g, (s * den) \div g>>
RInt(k) == <<k, 1>>
RAdd(a, b) == IF IsNaN(a) \/ IsNaN(b) THEN NaN
              ELSE Rat(a[1] * b[2] + b[1] * a[2], a[2] * b[2])
RSub(a, b) == IF IsNaN(a) \/ IsNaN(b) THEN NaN
              ELSE Rat(a[1] * b[2] - b[1] * a[2], a[2] * b[2])
RHalf(a) == IF IsNaN(a) THEN NaN ELSE Rat(a[1], 2 * a[2])

RECURSIVE Sum(_)
Sum(s) == IF s = <<>> THEN 0 ELSE Head(s) + Sum(Tail(s))

\* Python's == on floats: a NaN equals nothing, itself included.
PyFloatEq(a, b) == a # "NaN" /\ b # "NaN" /\ a = b

\* Degrees of freedom of a combination (Welch-Satterthwaite): undefined as soon
\* as one operand's is undefined, finite otherwise.
WS(dfs) == IF "NaN" \in dfs THEN "NaN" ELSE "fin"

\* Uncertain reals: [x |-> value, df |-> "fin" | "NaN"].
UReal(x, df) == [x |-> x, df |-> df]
USub(a, b) == UReal(RSub(a.x, b.x), WS({a.df, b.df}))
UAdd(a, b) == UReal(RAdd(a.x, b.x), WS({a.df, b.df}))
UHalf(a) == UReal(RHalf(a.x), a.df)

\* GTC.ta.estimate: mean of the list with len-1 degrees of freedom; of a list
\* of fewer than 2 samples, when it does not raise, an undefined value.
estimate(lst) ==
    IF Len(lst) < 2 THEN UReal(NaN, "NaN")
    ELSE UReal(Rat(Sum(lst), Len(lst)), "fin")

(***************************************************************************)
(* Variable groups.                                                        *)
(***************************************************************************)
storeVars == <<results, file, ib_file, ntests>>
testVars  == <<R_name, Vset>>
frameVars == <<m_call, step, pol, v_src, n, readings>>
instrVars == <<src, azero>>
envVars   == <<gain, offset, dvm_fault>>
histVars  == <<visited, len0, ndisc, step_reads, log, nreads>>
sessVars  == <<run, failed_open, late_cmds, inv_R>>
calcVars  == <<V_readings, Vs_readings, calc, Rin>>
calVars   == <<test_dict, i_readings, I_drift, v_readings, cal>>

NoReadings == [p \in Polarities |-> <<>>]
Standby == [level |-> 0, oper |-> FALSE]

(***************************************************************************)
(* The environment: what the DVM returns.  During one acquisition the DVM  *)
(* reads gain x setpoint + offset; at a non-zero polarity it may instead   *)
(* return an overload spike of 11 x setpoint ("spiky": on any reading,     *)
(* "overload": on every reading of that polarity).                         *)
(***************************************************************************)
Gains == {1, 9, 10}
Offsets == {0, 2}
FaultKinds == {"ok", "spiky", "overload"}
Faults(kinds) == [{-1, 1} -> kinds]

DvmReadings ==
    IF pol = 0 THEN {offset}
    ELSE LET nominal == gain * v_src + offset
             spike   == 11 * v_src
         IN  CASE dvm_fault[pol] = "ok"       -> {nominal}
               [] dvm_fault[pol] = "spiky"    -> {nominal, spike}
               [] dvm_fault[pol] = "overload" -> {spike}

(***************************************************************************)
(* measure(R_name, vset) of R_input.py, lines 63-105.                      *)
(***************************************************************************)
\* line 73: v_src = vset*pol
Setpoint(vset, p) == vset * p

\* (variant: the threshold itself counts as an overload)
Overload_ge(reading, setpoint, p) == Abs(reading) >= Abs(10 * setpoint) /\ p # 0

\* line 94: abs(float(reading)) > abs(10*v_src) and pol != 0
Overload(reading, setpoint, p) == Abs(reading) > Abs(10 * setpoint) /\ p # 0

\* (variant: the reading goes to the list of the opposite polarity)
AppendReading_opposite(d, p, reading) == [d EXCEPT ![-p] = Append(@, reading)]

\* line 98: v_readings[pol].append(float(reading))
AppendReading(d, p, reading) == [d EXCEPT ![p] = Append(@, reading)]

\* (variant: a skipped reading is read again, as in a while loop)
NextIndex_retry(k, skipped) == IF skipped THEN k ELSE k + 1

\* line 92: for n in range(N_READINGS): a skipped reading uses up its index
NextIndex(k, skipped) == k + 1

\* lines 101-103: AZERO ON; OUT 0V,0Hz; STBY
SafeSource(s) == Standby

\* Entry into measure(): line 70 (Keithley6430source-cal.py line 78), and the
\* environment of this acquisition.
EnterMeasure(call, gains, kinds) ==
    /\ m_call' = call
    /\ step' = 1
    /\ pol' = 0
    /\ v_src' = 0
    /\ n' = 0
    /\ readings' = NoReadings
    /\ gain' \in gains
    /\ offset' \in Offsets
    /\ dvm_fault' \in Faults(kinds)
    /\ visited' = <<>>
    /\ len0' = 0
    /\ ndisc' = 0
    /\ step_reads' = <<>>
    /\ log' = <<>>
    /\ nreads' = 0
    /\ pc' = "m_setup"

\* lines 72-89: start of a step: set the source, soak, set the DVM, autozero once
\* (Keithley6430source-cal.py lines 97-110 do the same with the 6430)
SetupStep ==
    /\ LET p == POLARITY_MASK[step]
           sp == Setpoint(Vset, p)
       IN  /\ pol' = p
           /\ v_src' = sp
           /\ src' = [level |-> sp, oper |-> TRUE]
           /\ visited' = Append(visited, <<p, sp>>)
           /\ len0' = Len(readings[p])
    /\ azero' = "ONCE"
    /\ n' = 0
    /\ ndisc' = 0
    /\ step_reads' = <<>>
    /\ pc' = "m_read"
    /\ UNCHANGED <<sessVars, script, exc, storeVars, testVars, m_call, step, readings,
                   envVars, log, nreads, calcVars, calVars>>

\* lines 92-98: one pass of the reading loop
\* (Keithley6430source-cal.py lines 113-119 are the same loop)
ReadLoopPass ==
    /\ n < N_READINGS
    /\ \E reading \in DvmReadings :
          /\ step_reads' = Append(step_reads, reading)
          /\ nreads' = nreads + 1
          /\ IF Overload(reading, v_src, pol)
             THEN /\ n' = NextIndex(n, TRUE)
                  /\ ndisc' = ndisc + 1
                  /\ UNCHANGED <<readings, log>>
             ELSE /\ n' = NextIndex(n, FALSE)
                  /\ readings' = AppendReading(readings, pol, reading)
                  /\ log' = Append(log, <<pol, reading>>)
                  /\ UNCHANGED ndisc
    /\ UNCHANGED <<sessVars, script, pc, exc, storeVars, testVars, m_call, step, pol, v_src,
                   instrVars, envVars, visited, len0, calcVars, calVars>>

\* line 93: dvm.read() raises (a VISA timeout or error), or the operator
\* interrupts the script while it waits for the reading; nothing catches it.
ReadRaises ==
    /\ n < N_READINGS
    /\ exc' \in {"VisaIOError", "KeyboardInterrupt"}
    /\ pc' = "crashed"
    /\ UNCHANGED <<sessVars, script, storeVars, testVars, frameVars, instrVars, envVars,
                   histVars, calcVars, calVars>>

\* lines 100-103: end of a step: DVM and source to 'safe mode'
\* (Keithley6430source-cal.py lines 121-125: AZERO ON, level 0, OUTPut OFF)
SafeStep ==
    /\ n = N_READINGS
    /\ azero' = "ON"
    /\ src' = SafeSource(src)
    /\ IF step < Len(POLARITY_MASK)
       THEN step' = step + 1 /\ pc' = "m_setup"
       ELSE step' = step /\ pc' = "m_return"
    /\ UNCHANGED <<sessVars, script, exc, storeVars, testVars, m_call, pol, v_src, n, readings,
                   envVars, histVars, calcVars, calVars>>

\* The frame of measure() is gone once it has returned.
LeaveMeasure ==
    /\ m_call' = "none"
    /\ step' = 0
    /\ pol' = 0
    /\ v_src' = 0
    /\ n' = 0
    /\ readings' = NoReadings
    /\ visited' = <<>>
    /\ len0' = 0
    /\ ndisc' = 0
    /\ step_reads' = <<>>
    /\ log' = <<>>
    /\ nreads' = 0

\* lines 72-89; when the source was never opened (line 170), line 76 writes to
\* the DVM and line 79, src.write, raises NameError
measure_setup ==
    /\ pc = "m_setup"
    /\ m_call \in {"V", "Vs"}
    /\ IF "src" \in failed_open
       THEN /\ late_cmds' = Append(late_cmds, "DCV")
            /\ pc' = "crashed"
            /\ exc' = "NameError"
            /\ UNCHANGED <<run, failed_open, inv_R, script, storeVars, testVars,
                           frameVars, instrVars, envVars, histVars, calcVars, calVars>>
       ELSE SetupStep
measure_read == pc = "m_read" /\ m_call \in {"V", "Vs"} /\ ReadLoopPass
measure_read_raises == pc = "m_read" /\ m_call \in {"V", "Vs"} /\ ReadRaises
measure_safe == pc = "m_read" /\ m_call \in {"V", "Vs"} /\ SafeStep

\* line 105: return v_readings (and the assignment at line 217 or 222)
measure_return ==
    /\ pc = "m_return"
    /\ m_call \in {"V", "Vs"}
    /\ IF m_call = "V"
       THEN /\ V_readings' = Some(readings)
            /\ pc' = "check1"
            /\ UNCHANGED Vs_readings
       ELSE /\ Vs_readings' = Some(readings)
            /\ pc' = "check2"
            /\ UNCHANGED V_readings
    /\ LeaveMeasure
    /\ UNCHANGED <<sessVars, script, exc, storeVars, testVars, instrVars, envVars, calc, Rin,
                   calVars>>

(***************************************************************************)
(* measure(test_dict) of Keithley6430source-cal.py, lines 71-126.          *)
(* Currents are in units of 1 uA.                                          *)
(***************************************************************************)
\* lines 81-110: start of a step.  line 84 reads test_dict['Rname'] in either
\* method; the high-current test_dict (line 241) has no such key.
cal_measure_setup ==
    /\ pc = "m_setup"
    /\ m_call = "cal"
    /\ IF "Rname" \notin DOMAIN test_dict
       THEN /\ pc' = "crashed"
            /\ exc' = "KeyError"
            /\ UNCHANGED <<sessVars, script, storeVars, testVars, frameVars, instrVars,
                           envVars, histVars, calcVars, calVars>>
       ELSE SetupStep

cal_measure_read == pc = "m_read" /\ m_call = "cal" /\ ReadLoopPass
cal_measure_read_raises == pc = "m_read" /\ m_call = "cal" /\ ReadRaises
cal_measure_safe == pc = "m_read" /\ m_call = "cal" /\ SafeStep

\* line 126: return readings (and the assignment at line 287)
cal_measure_return ==
    /\ pc = "m_return"
    /\ m_call = "cal"
    /\ v_readings' = Some(readings)
    /\ pc' = "c_reduce"
    /\ LeaveMeasure
    /\ UNCHANGED <<sessVars, script, exc, storeVars, testVars, instrVars, envVars, calcVars,
                   test_dict, i_readings, I_drift, cal>>

(***************************************************************************)
(* One acquisition on its own: measure() called once, for every setting,   *)
(* gain, offset and fault of the DVM.                                      *)
(***************************************************************************)
Vsets == {1, 2}
LowDict(i_set, rname, v_rng) ==
    [k \in {"Iset", "Rname", "Vrng"} |->
        CASE k = "Iset" -> Some(i_set) [] k = "Rname" -> Some(rname) [] k = "Vrng" -> Some(v_rng)]
HighDict(i_set) == [k \in {"Iset"} |-> Some(i_set)]

InitMeasure ==
    /\ script \in {"R_input", "K6430_cal"}
    /\ exc = "none"
    /\ results = EmptyDict
    /\ file = None
    /\ ib_file = None
    /\ ntests = 1
    /\ R_name = "G493 100k"
    /\ Vset \in Vsets
    /\ m_call = (IF script = "R_input" THEN "V" ELSE "cal")
    /\ step = 1
    /\ pol = 0
    /\ v_src = 0
    /\ n = 0
    /\ readings = NoReadings
    /\ src = Standby
    /\ azero = "ON"
    /\ gain \in Gains
    /\ offset \in Offsets
    /\ dvm_fault \in Faults(FaultKinds)
    /\ visited = <<>>
    /\ len0 = 0
    /\ ndisc = 0
    /\ step_reads = <<>>
    /\ log = <<>>
    /\ V_readings = None
    /\ Vs_readings = None
    /\ calc = None
    /\ Rin = None
    /\ test_dict \in (IF script = "R_input" THEN {EmptyDict}
                      ELSE {HighDict(Vset), LowDict(Vset, "G493", Vset)})
    /\ i_readings = None
    /\ I_drift = None
    /\ v_readings = None
    /\ cal = None
    /\ run = 1
    /\ failed_open = {}
    /\ late_cmds = <<>>
    /\ inv_R = None
    /\ nreads = 0
    /\ pc = "m_setup"

NextMeasure ==
    \/ measure_setup
    \/ measure_read
    \/ measure_read_raises
    \/ measure_safe
    \/ measure_return
    \/ cal_measure_setup
    \/ cal_measure_read
    \/ cal_measure_read_raises
    \/ cal_measure_safe
    \/ cal_measure_return

SpecMeasure == InitMeasure /\ [][NextMeasure]_vars

\* measure() is sequential code: while it has a next statement that raises
\* nothing, it executes it (dvm.read() returns a value or raises).
MeasureProgress ==
    \/ measure_setup
    \/ measure_read
    \/ measure_safe
    \/ measure_return
    \/ cal_measure_setup
    \/ cal_measure_read
    \/ cal_measure_safe
    \/ cal_measure_return

FairSpecMeasure == SpecMeasure /\ WF_vars(MeasureProgress)

(***************************************************************************)
(* R_input.py: the reduction, lines 228-238.                               *)
(***************************************************************************)
\* (variant: no drift is subtracted)
DriftCorrected_none(mean, drift) == mean

\* lines 229-230: GTC.ta.estimate(V_readings[pol]) - V_drift
DriftCorrected(mean, drift) == USub(mean, drift)

\* (variant: the shorted acquisition's own drift, unscaled)
ShortedDrift_own(V_drift, Vs_drift) == Vs_drift

\* lines 235-236: what is subtracted from the shorted means: V_drift/2
ShortedDrift(V_drift, Vs_drift) == UHalf(V_drift)

\* lines 231-232, 237-238: offset, and signal = (fwd - rev)/2 - offset
Offset(fwd, rev) == UHalf(UAdd(fwd, rev))

\* (variant: the half difference, without the offset)
Signal_half_difference(fwd, rev) == UHalf(USub(fwd, rev))

Signal(fwd, rev) == USub(UHalf(USub(fwd, rev)), Offset(fwd, rev))

Calculated(V, Vs) ==
    LET V_drift  == estimate(V[0])
        Vp       == DriftCorrected(estimate(V[1]), V_drift)
        Vn       == DriftCorrected(estimate(V[-1]), V_drift)
        Vs_drift == estimate(Vs[0])
        Vsp      == DriftCorrected(estimate(Vs[1]), ShortedDrift(V_drift, Vs_drift))
        Vsn      == DriftCorrected(estimate(Vs[-1]), ShortedDrift(V_drift, Vs_drift))
    IN  [V_drift |-> V_drift, Vp |-> Vp, Vn |-> Vn,
         V_off |-> Offset(Vp, Vn), V_av |-> Signal(Vp, Vn),
         Vs_drift |-> Vs_drift, Vsp |-> Vsp, Vsn |-> Vsn,
         Vs_off |-> Offset(Vsp, Vsn), Vs_av |-> Signal(Vsp, Vsn)]

\* GTC.ta.estimate has no mean or no spread to compute from fewer than 2 samples.
Degenerate(d) == \E p \in Polarities : Len(d[p]) < 2

(***************************************************************************)
(* R_input.py: dud_ureal, lines 108-118.                                   *)
(***************************************************************************)
\* lines 115-118: for u in u_lst: if u.df == float('NaN'): return True
dud_ureal(u_lst) == \E i \in 1..Len(u_lst) : PyFloatEq(u_lst[i], "NaN")

(***************************************************************************)
(* R_input.py: the script, lines 182-275.                                  *)
(***************************************************************************)
\* The Ib handoff file as R_input.py may find it: absent, or a dict from the
\* resistor names (and 'Ib') to the degrees of freedom of Ib_approx (of Ib).
IbDicts ==
    { [k \in K |-> df] : K \in {R_NAMES, R_NAMES \cup {"Ib"}}, df \in {"fin"} }
    \cup { [k \in R_NAMES \cup {"Ib"} |-> "NaN"] }
IbFiles == {None} \cup { Some(d) : d \in IbDicts }

\* lines 253-258: the key and the entry of a test
TestKey(rname, vset) == <<rname, vset>>
TestEntry(t, rin) == [t |-> t, Rin |-> rin[1], Rin_approx |-> rin[2]]

\* Results files that may exist when the script starts.
PriorFiles == {None, Some([k \in {TestKey("G493 100k", 1)} |-> TestEntry(0, <<"fin", "fin">>)])}

\* Test voltages the operator enters in the script runs.
TestVsets == {1}
\* DVM behaviour in the script runs.
TestGains == {1}
TestFaults == {"ok", "overload"}

\* The values of a finished test are dead once the loop starts again.
ForgetTest ==
    /\ V_readings' = None
    /\ Vs_readings' = None
    /\ calc' = None
    /\ Rin' = None
    /\ ib_file' = None

\* (variant: every run starts from an empty dict)
Loaded_fresh(f) == EmptyDict

\* lines 183-186: the dict in the results file, or {} when there is no file
Loaded(f) == IF Bound(f) THEN Val(f) ELSE EmptyDict

\* lines 146-170: open the DVM and the source.  A failed open is printed and
\* the script goes on: without dvm, line 160 raises NameError; without src,
\* nothing stops the script here.  line 162: DCV 1000; NPLC 20; AZERO ON
OpenInstruments ==
    /\ script = "R_input"
    /\ pc = "open"
    /\ \E dvm_ok, src_ok \in BOOLEAN :
          IF ~dvm_ok
          THEN /\ failed_open' = {"dvm"}
               /\ pc' = "crashed"
               /\ exc' = "NameError"
               /\ UNCHANGED azero
          ELSE /\ failed_open' = (IF src_ok THEN {} ELSE {"src"})
               /\ azero' = "ON"
               /\ pc' = "load"
               /\ UNCHANGED exc
    /\ UNCHANGED <<run, late_cmds, inv_R, script, storeVars, testVars, frameVars,
                   src, envVars, histVars, calcVars, calVars>>

\* lines 182-186: load the results file, or start from an empty dict
LoadResults ==
    /\ script = "R_input"
    /\ pc = "load"
    /\ results' = Loaded(file)
    /\ pc' = "params"
    /\ UNCHANGED <<sessVars, calVars, script, exc, file, ib_file, ntests, testVars, frameVars,
                   instrVars, envVars, histVars, calcVars>>

\* lines 188-217: the operator chooses the test; measure(R_name, Vset) is called
SelectTest ==
    /\ script = "R_input"
    /\ pc = "params"
    /\ ntests < MaxTests
    /\ ntests' = ntests + 1
    /\ R_name' \in R_NAMES
    /\ Vset' \in TestVsets
    /\ EnterMeasure("V", TestGains, TestFaults)
    /\ UNCHANGED <<sessVars, calVars, script, exc, results, file, ib_file, instrVars, calcVars>>

\* lines 218-222: skip the test if no positive reading; else measure('short', Vset)
CheckV ==
    /\ script = "R_input"
    /\ pc = "check1"
    /\ IF Len(Val(V_readings)[1]) < 1
       THEN /\ pc' = "params"
            /\ ForgetTest
            /\ UNCHANGED <<frameVars, envVars, histVars>>
       ELSE /\ EnterMeasure("Vs", TestGains, TestFaults)
            /\ UNCHANGED <<calcVars, ib_file>>
    /\ UNCHANGED <<sessVars, calVars, script, exc, results, file, ntests, testVars, instrVars>>

\* lines 223-224: skip the test if no positive reading with Rs shorted
CheckVs ==
    /\ script = "R_input"
    /\ pc = "check2"
    /\ IF Len(Val(Vs_readings)[1]) < 1
       THEN pc' = "params" /\ ForgetTest
       ELSE pc' = "calc" /\ UNCHANGED <<calcVars, ib_file>>
    /\ UNCHANGED <<sessVars, calVars, script, exc, results, file, ntests, testVars, frameVars,
                   instrVars, envVars, histVars>>

\* lines 228-241: the reduction.  With a list of fewer than 2 samples the
\* library either raises or yields an undefined value.
Calculations ==
    /\ script = "R_input"
    /\ pc = "calc"
    /\ \/ /\ Degenerate(Val(V_readings)) \/ Degenerate(Val(Vs_readings))
          /\ pc' = "crashed"
          /\ exc' = "estimate"
          /\ UNCHANGED calc
       \/ /\ calc' = Some(Calculated(Val(V_readings), Val(Vs_readings)))
          /\ pc' = "import"
          /\ UNCHANGED exc
    /\ UNCHANGED <<sessVars, calVars, script, storeVars, testVars, frameVars, instrVars, envVars,
                   histVars, V_readings, Vs_readings, Rin>>

\* lines 244-258: read Ib_approx and Ib from the handoff file, compute Rin and
\* Rin_approx (their degrees of freedom; R's own are finite)
ImportIb ==
    /\ script = "R_input"
    /\ pc = "import"
    /\ \E f \in IbFiles :
          /\ ib_file' = f
          /\ IF ~Bound(f)
             THEN /\ pc' = "crashed"
                  /\ exc' = "FileNotFoundError"
                  /\ UNCHANGED Rin
             ELSE IF R_name \notin DOMAIN Val(f) \/ "Ib" \notin DOMAIN Val(f)
             THEN /\ pc' = "crashed"
                  /\ exc' = "KeyError"
                  /\ UNCHANGED Rin
             ELSE LET Ib_approx == Val(f)[R_name]
                      Ib        == Val(f)["Ib"]
                      c         == Val(calc)
                  IN  /\ Rin' = Some(<<WS({c.V_av.df, c.Vs_av.df, Ib}),
                                       WS({c.V_av.df, c.Vs_av.df, Ib_approx})>>)
                      /\ pc' = "dud"
                      /\ UNCHANGED exc
    /\ UNCHANGED <<sessVars, calVars, script, results, file, ntests, testVars, frameVars, instrVars,
                   envVars, histVars, V_readings, Vs_readings, calc>>

\* lines 261-265: a dud test is skipped, any other is added to the store
UpdateResults ==
    /\ script = "R_input"
    /\ pc = "dud"
    /\ IF dud_ureal(Val(Rin))
       THEN /\ pc' = "resp"
            /\ UNCHANGED results
       ELSE /\ results' = DictUpdate(results, TestKey(R_name, Vset),
                                     TestEntry(ntests, Val(Rin)))
            /\ pc' = "dump"
    /\ UNCHANGED <<sessVars, calVars, script, exc, file, ib_file, ntests, testVars, frameVars,
                   instrVars, envVars, histVars, calcVars>>

\* lines 266-267: json.dump(results, ...) into the results file
DumpResults ==
    /\ script = "R_input"
    /\ pc = "dump"
    /\ file' = Some(results)
    /\ pc' = "resp"
    /\ UNCHANGED <<sessVars, calVars, script, exc, results, ib_file, ntests, testVars, frameVars,
                   instrVars, envVars, histVars, calcVars>>

\* lines 268-275: another test, or close the instruments and end
Continue ==
    /\ script = "R_input"
    /\ pc = "resp"
    /\ \E resp \in {"y", "n"} :
          pc' = IF resp = "n" THEN "done" ELSE "params"
    /\ ForgetTest
    /\ UNCHANGED <<sessVars, calVars, script, exc, results, file, ntests, testVars, frameVars,
                   instrVars, envVars, histVars>>

(***************************************************************************)
(* The reduction on its own: lines 228-238 applied to every triple of      *)
(* reading lists of the first acquisition, up to a length.                 *)
(***************************************************************************)
\* Longest reading list given to the reduction.
MaxListLen == 2
ReduceValues == {0, 1, 3}
ReduceLists == UNION { [1..k -> ReduceValues] : k \in 0..MaxListLen }
ShortedReadings == [p \in Polarities |-> <<p, p>>]

InitReduce ==
    /\ script = "R_input"
    /\ pc = "calc"
    /\ exc = "none"
    /\ results = EmptyDict
    /\ file = None
    /\ ib_file = None
    /\ ntests = 1
    /\ R_name = "G493 100k"
    /\ Vset = 1
    /\ m_call = "none"
    /\ step = 0
    /\ pol = 0
    /\ v_src = 0
    /\ n = 0
    /\ readings = NoReadings
    /\ src = Standby
    /\ azero = "ON"
    /\ gain = 1
    /\ offset = 0
    /\ dvm_fault = [p \in {-1, 1} |-> "ok"]
    /\ visited = <<>>
    /\ len0 = 0
    /\ ndisc = 0
    /\ step_reads = <<>>
    /\ log = <<>>
    /\ V_readings \in { Some(d) : d \in [Polarities -> ReduceLists] }
    /\ Vs_readings = Some(ShortedReadings)
    /\ calc = None
    /\ Rin = None
    /\ test_dict = EmptyDict
    /\ i_readings = None
    /\ I_drift = None
    /\ v_readings = None
    /\ cal = None
    /\ run = 1
    /\ failed_open = {}
    /\ late_cmds = <<>>
    /\ inv_R = None
    /\ nreads = 0

NextReduce == Calculations

SpecReduce == InitReduce /\ [][NextReduce]_vars

(***************************************************************************)
(* Keithley6430source-cal.py: the script, lines 155-316.                   *)
(* Currents are in uA and voltages in uV.                                  *)
(***************************************************************************)
\* lines 30-39: BEST_R_FOR_I, its keys from 1 uA up (1e-6, 1e-5, 1e-4)
BEST_R_FOR_I == [i \in {1, 10, 100} |-> "G493"]
\* line 283: nearest decade of G493 in parallel with the DVM input
R_NOM == [r \in {"G493"} |-> 100000]

\* Current settings the operator enters: 1 uA, 5 uA, 100 uA, 1 mA.
CalIsets == {1, 5, 100, 1000}
\* DVM readings per unit of setpoint in the calibration: the voltage across
\* G493 (1e5 uV per uA), or a reading as small as the setpoint itself.
CalGains == {1, 100000}

\* lines 155-162: load the results file, or start from an empty dict
CalLoadResults ==
    /\ script = "K6430_cal"
    /\ pc = "load"
    /\ results' = Loaded(file)
    /\ pc' = "c_open"
    /\ UNCHANGED <<sessVars, script, exc, file, ib_file, ntests, testVars, frameVars,
                   instrVars, envVars, histVars, calcVars, calVars>>

\* lines 170-199: open the DVM and the 6430; a failed open ends the script
\* (sys.exit).  lines 194-197: *RST and fixed-current mode
CalOpenInstruments ==
    /\ script = "K6430_cal"
    /\ pc = "c_open"
    /\ \E dvm_ok, K6430_ok \in BOOLEAN :
          IF dvm_ok /\ K6430_ok
          THEN /\ failed_open' = {}
               /\ src' = Standby
               /\ pc' = "c_params"
               /\ UNCHANGED exc
          ELSE /\ failed_open' = (IF dvm_ok THEN {"src"} ELSE {"dvm"})
               /\ pc' = "crashed"
               /\ exc' = "SystemExit"
               /\ UNCHANGED src
    /\ UNCHANGED <<run, late_cmds, inv_R, script, storeVars, testVars, frameVars,
                   azero, envVars, histVars, calcVars, calVars>>

\* lines 213-232: the operator enters the current setting; the method is chosen
CalSelectTest ==
    /\ script = "K6430_cal"
    /\ pc = "c_params"
    /\ ntests < MaxTests
    /\ ntests' = ntests + 1
    /\ \E i_set \in CalIsets, response \in {"y", "n"} :
          /\ Vset' = i_set
          /\ pc' = IF i_set < 100 THEN "c_low"
                   ELSE IF i_set > 100 THEN "c_high"
                   ELSE IF response = "y" THEN "c_high" ELSE "c_low"
    /\ v_readings' = None
    /\ cal' = None
    /\ UNCHANGED <<sessVars, script, exc, results, file, ib_file, R_name, frameVars, instrVars,
                   envVars, histVars, calcVars, test_dict, i_readings, I_drift>>

\* lines 235-242: high-current method: measure({'Iset': i_set})
CalHigh ==
    /\ script = "K6430_cal"
    /\ pc = "c_high"
    /\ test_dict' = HighDict(Vset)
    /\ EnterMeasure("cal", CalGains, TestFaults)
    /\ UNCHANGED <<sessVars, script, exc, storeVars, testVars, instrVars, calcVars,
                   i_readings, I_drift, v_readings, cal>>

\* lines 258-287: low-current method: the sense resistor and the DVM range are
\* looked up, then measure({'Iset', 'Rname', 'Vrng'})
CalLow ==
    /\ script = "K6430_cal"
    /\ pc = "c_low"
    /\ IF Vset \notin DOMAIN BEST_R_FOR_I
       THEN /\ pc' = "crashed"
            /\ exc' = "KeyError"
            /\ UNCHANGED <<frameVars, envVars, histVars, test_dict>>
       ELSE LET Rname == BEST_R_FOR_I[Vset]
                v_rng == Vset * R_NOM[Rname]
            IN  /\ test_dict' = LowDict(Vset, Rname, v_rng)
                /\ EnterMeasure("cal", CalGains, TestFaults)
                /\ UNCHANGED exc
    /\ UNCHANGED <<sessVars, script, storeVars, testVars, instrVars, calcVars,
                   i_readings, I_drift, v_readings, cal>>

\* lines 290-297: the reduction of a low-current test (the range, a decade
\* from 0.1 V to 10 V here, is a key of DVM452_V_CORRECTIONS).  Line 293 reads
\* i_readings and I_drift, which only a high-current test assigns (lines 242, 246).
CalReduce ==
    /\ script = "K6430_cal"
    /\ pc = "c_reduce"
    /\ LET v == Val(v_readings)
       IN  \/ /\ Len(v[1]) < 2
              /\ pc' = "crashed"
              /\ exc' = "estimate"
              /\ UNCHANGED cal
           \/ /\ IF ~Bound(i_readings) \/ ~Bound(I_drift)
                 THEN /\ pc' = "crashed"
                      /\ exc' = "NameError"
                      /\ UNCHANGED cal
                 ELSE LET V_drift == estimate(v[0])
                          Vp == DriftCorrected(estimate(v[1]), V_drift)
                          Vn == DriftCorrected(estimate(Val(i_readings)[-1]), Val(I_drift))
                      IN  /\ cal' = Some([V_drift |-> V_drift, Vp |-> Vp, Vn |-> Vn,
                                          V_av |-> Signal(Vp, Vn)])
                          /\ pc' = "c_update"
                          /\ UNCHANGED exc
    /\ UNCHANGED <<sessVars, script, storeVars, testVars, frameVars, instrVars, envVars,
                   histVars, calcVars, test_dict, i_readings, I_drift, v_readings>>

\* Lines 245-256 (the high-current reduction) and 298-316 (store, dump, next
\* test) are never reached: measure() raises at line 84 in a high-current test
\* and line 293 raises in a low-current one.

(***************************************************************************)
(* Ib_Rin.py: measure(), lines 52-68, and the script, lines 120-190.       *)
(***************************************************************************)
\* Resistors the operator can connect in the bias-current procedure.
IB_R_NAMES == {"G493", "Al969", "C9736", "C9620"}
\* Tests one run of Ib_Rin.py may start.
MaxIbTests == 4

IbEntry(t) == [t |-> t, Ib_approx |-> "fin"]

\* lines 94-108: open the DVM.  A failed open is printed and the script goes
\* on to line 106, dvm.query, which raises NameError.  line 108: AZERO ON
IbOpenInstruments ==
    /\ script = "Ib_Rin"
    /\ pc = "open"
    /\ \E dvm_ok \in BOOLEAN :
          IF ~dvm_ok
          THEN /\ failed_open' = {"dvm"}
               /\ pc' = "crashed"
               /\ exc' = "NameError"
               /\ UNCHANGED azero
          ELSE /\ failed_open' = {}
               /\ azero' = "ON"
               /\ pc' = "load"
               /\ UNCHANGED exc
    /\ UNCHANGED <<run, late_cmds, inv_R, script, storeVars, testVars, frameVars,
                   src, envVars, histVars, calcVars, calVars>>

\* lines 120-124: load the results file, or start from an empty dict
IbLoadResults ==
    /\ script = "Ib_Rin"
    /\ pc = "load"
    /\ results' = Loaded(file)
    /\ pc' = "ib_params"
    /\ UNCHANGED <<sessVars, script, exc, file, ib_file, ntests, testVars, frameVars,
                   instrVars, envVars, histVars, calcVars, calVars>>

\* lines 127-147 and 53-58: the operator names the resistor and measure() starts,
\* or ends the loop with an empty answer
IbSelectTest ==
    /\ script = "Ib_Rin"
    /\ pc = "ib_params"
    /\ \/ /\ pc' = "ib_fit"
          /\ UNCHANGED <<ntests, R_name, n, readings, offset, azero>>
       \/ /\ ntests < MaxIbTests
          /\ ntests' = ntests + 1
          /\ R_name' \in IB_R_NAMES
          /\ offset' \in Offsets
          /\ n' = 0
          /\ readings' = NoReadings
          /\ azero' = "ONCE"
          /\ pc' = "ib_read"
    /\ UNCHANGED <<sessVars, script, exc, results, file, ib_file, Vset, m_call, step, pol,
                   v_src, src, gain, dvm_fault, histVars, calcVars, calVars>>

\* lines 59-62: one pass of the reading loop (no filter)
ib_measure_read ==
    /\ script = "Ib_Rin"
    /\ pc = "ib_read"
    /\ n < N_READINGS
    /\ \E reading \in {offset} :
          readings' = AppendReading(readings, 0, reading)
    /\ n' = n + 1
    /\ UNCHANGED <<sessVars, script, pc, exc, storeVars, testVars, m_call, step, pol, v_src,
                   instrVars, envVars, histVars, calcVars, calVars>>

\* line 60: dvm.read() raises, or the operator interrupts the script
ib_measure_read_raises ==
    /\ script = "Ib_Rin"
    /\ pc = "ib_read"
    /\ n < N_READINGS
    /\ exc' \in {"VisaIOError", "KeyboardInterrupt"}
    /\ pc' = "crashed"
    /\ UNCHANGED <<sessVars, script, storeVars, testVars, frameVars, instrVars, envVars,
                   histVars, calcVars, calVars>>

\* lines 63-68 and 150-161: AZERO ON, the mean, Ib_approx, results.update
IbUpdateResults ==
    /\ script = "Ib_Rin"
    /\ pc = "ib_read"
    /\ n = N_READINGS
    /\ azero' = "ON"
    /\ results' = DictUpdate(results, R_name, IbEntry(ntests))
    /\ n' = 0
    /\ readings' = NoReadings
    /\ pc' = "ib_params"
    /\ UNCHANGED <<sessVars, script, exc, file, ib_file, ntests, testVars, m_call, step, pol,
                   v_src, src, envVars, histVars, calcVars, calVars>>

\* (variant: every key of the store is a regression point)
FitPoints_all(d) == DOMAIN d

\* lines 170-173: the entries used as points: all but the keys 'Ib' and 'Rin'
FitPoints(d) == DOMAIN d \ {"Ib", "Rin"}

\* line 184 (Input-Z.py line 145): results.update({'Ib': Ib, 'Rin': Rin})
WithFit(d) == DictUpdate(DictUpdate(d, "Ib", [df |-> "fin"]), "Rin", [df |-> "fin"])

\* lines 166-185: the fit, when the store holds more than 3 entries
IbFit ==
    /\ script = "Ib_Rin"
    /\ pc = "ib_fit"
    /\ IF Cardinality(DOMAIN results) > 3
       THEN /\ inv_R' = Some(FitPoints(results))
            /\ results' = WithFit(results)
       ELSE UNCHANGED <<inv_R, results>>
    /\ pc' = "ib_store"
    /\ UNCHANGED <<run, failed_open, late_cmds, script, exc, file, ib_file, ntests, testVars, frameVars,
                   instrVars, envVars, histVars, calcVars, calVars>>

\* lines 188-190: json.dump(results, ...) into the results file
IbStore ==
    /\ script = "Ib_Rin"
    /\ pc = "ib_store"
    /\ file' = Some(results)
    /\ pc' = "done"
    /\ UNCHANGED <<sessVars, script, exc, results, ib_file, ntests, testVars, frameVars,
                   instrVars, envVars, histVars, calcVars, calVars>>

(***************************************************************************)
(* Input-Z.py, lines 50-150: the earlier bias-current script.  Its store,  *)
(* RESULTS, starts empty in every run (line 50) and no file is read.       *)
(***************************************************************************)
\* lines 53-67: open the DVM.  A failed open is printed and the script goes on
\* to line 65, dvm.query, which raises NameError.  line 67: AZERO ON
IzOpenInstruments ==
    /\ script = "Input_Z"
    /\ pc = "open"
    /\ \E dvm_ok \in BOOLEAN :
          IF ~dvm_ok
          THEN /\ failed_open' = {"dvm"}
               /\ pc' = "crashed"
               /\ exc' = "NameError"
               /\ UNCHANGED azero
          ELSE /\ failed_open' = {}
               /\ azero' = "ON"
               /\ pc' = "iz_params"
               /\ UNCHANGED exc
    /\ UNCHANGED <<run, late_cmds, inv_R, script, storeVars, testVars, frameVars,
                   src, envVars, histVars, calcVars, calVars>>

\* lines 74-104: the operator names the resistor and the readings start, or
\* ends the loop with an empty answer
IzSelectTest ==
    /\ script = "Input_Z"
    /\ pc = "iz_params"
    /\ \/ /\ pc' = "iz_fit"
          /\ UNCHANGED <<ntests, R_name, n, readings, offset, azero>>
       \/ /\ ntests < MaxIbTests
          /\ ntests' = ntests + 1
          /\ R_name' \in IB_R_NAMES
          /\ offset' \in Offsets
          /\ n' = 0
          /\ readings' = NoReadings
          /\ azero' = "ONCE"
          /\ pc' = "iz_read"
    /\ UNCHANGED <<sessVars, script, exc, results, file, ib_file, Vset, m_call, step,
                   pol, v_src, src, gain, dvm_fault, histVars, calcVars, calVars>>

\* lines 106-109: one pass of the reading loop
iz_read ==
    /\ script = "Input_Z"
    /\ pc = "iz_read"
    /\ n < N_READINGS
    /\ \E reading \in {offset} :
          readings' = AppendReading(readings, 0, reading)
    /\ n' = n + 1
    /\ UNCHANGED <<sessVars, script, pc, exc, storeVars, testVars, m_call, step, pol,
                   v_src, instrVars, envVars, histVars, calcVars, calVars>>

\* line 107: dvm.read() raises, or the operator interrupts the script
iz_read_raises ==
    /\ script = "Input_Z"
    /\ pc = "iz_read"
    /\ n < N_READINGS
    /\ exc' \in {"VisaIOError", "KeyboardInterrupt"}
    /\ pc' = "crashed"
    /\ UNCHANGED <<sessVars, script, storeVars, testVars, frameVars, instrVars,
                   envVars, histVars, calcVars, calVars>>

\* lines 110-129: AZERO ON, the mean, Ib_approx, RESULTS.update
IzUpdateResults ==
    /\ script = "Input_Z"
    /\ pc = "iz_read"
    /\ n = N_READINGS
    /\ azero' = "ON"
    /\ results' = DictUpdate(results, R_name, IbEntry(ntests))
    /\ n' = 0
    /\ readings' = NoReadings
    /\ pc' = "iz_params"
    /\ UNCHANGED <<sessVars, script, exc, file, ib_file, ntests, testVars, m_call,
                   step, pol, v_src, src, envVars, histVars, calcVars, calVars>>

\* lines 132-146: the fit, made from every entry of RESULTS whatever their
\* number.  From fewer than 2 points the regression raises or returns values
\* that mean nothing.
IzFit ==
    /\ script = "Input_Z"
    /\ pc = "iz_fit"
    /\ inv_R' = Some(DOMAIN results)
    /\ \/ /\ Cardinality(DOMAIN results) < 2
          /\ pc' = "crashed"
          /\ exc' = "RuntimeError"
          /\ UNCHANGED results
       \/ /\ results' = WithFit(results)
          /\ pc' = "iz_store"
          /\ UNCHANGED exc
    /\ UNCHANGED <<run, failed_open, late_cmds, script, file, ib_file, ntests,
                   testVars, frameVars, instrVars, envVars, histVars, calcVars,
                   calVars>>

\* line 148: json.dumps(RESULTS) without an encoder raises TypeError on the
\* uncertain numbers RESULTS holds ('Ib' and 'Rin' at least); lines 149-150
\* are not reached and no file is written.
IzStore ==
    /\ script = "Input_Z"
    /\ pc = "iz_store"
    /\ pc' = "crashed"
    /\ exc' = "TypeError"
    /\ UNCHANGED <<sessVars, script, storeVars, testVars, frameVars, instrVars,
                   envVars, histVars, calcVars, calVars>>

(***************************************************************************)
(* The scripts.                                                            *)
(***************************************************************************)
\* Where a run of a script begins.
FirstPc(sc) == IF sc = "K6430_cal" THEN "load" ELSE "open"

\* A new run of the same script: a new process, which finds the results file
\* and the instruments as the run before left them.
Restart ==
    /\ pc \in {"done", "crashed"}
    /\ run < MaxRuns
    /\ run' = run + 1
    /\ pc' = FirstPc(script)
    /\ exc' = "none"
    /\ results' = EmptyDict
    /\ failed_open' = {}
    /\ late_cmds' = <<>>
    /\ inv_R' = None
    /\ ForgetTest
    /\ LeaveMeasure
    /\ test_dict' = EmptyDict
    /\ i_readings' = None
    /\ I_drift' = None
    /\ v_readings' = None
    /\ cal' = None
    /\ UNCHANGED <<script, file, ntests, testVars, instrVars, envVars>>

Init ==
    /\ script \in {"R_input", "Ib_Rin", "K6430_cal", "Input_Z"}
    /\ pc = FirstPc(script)
    /\ exc = "none"
    /\ results = EmptyDict
    /\ file \in (IF script = "R_input" THEN PriorFiles ELSE {None})
    /\ ib_file = None
    /\ ntests = 0
    /\ R_name = "G493 100k"
    /\ Vset = 1
    /\ m_call = "none"
    /\ step = 0
    /\ pol = 0
    /\ v_src = 0
    /\ n = 0
    /\ readings = NoReadings
    /\ src = Standby
    /\ azero = "ON"
    /\ gain = 1
    /\ offset = 0
    /\ dvm_fault = [p \in {-1, 1} |-> "ok"]
    /\ visited = <<>>
    /\ len0 = 0
    /\ ndisc = 0
    /\ step_reads = <<>>
    /\ log = <<>>
    /\ V_readings = None
    /\ Vs_readings = None
    /\ calc = None
    /\ Rin = None
    /\ test_dict = EmptyDict
    /\ i_readings = None
    /\ I_drift = None
    /\ v_readings = None
    /\ cal = None
    /\ run = 1
    /\ failed_open = {}
    /\ late_cmds = <<>>
    /\ inv_R = None
    /\ nreads = 0

Next ==
    \/ Restart
    \/ OpenInstruments
    \/ CalOpenInstruments
    \/ IbOpenInstruments
    \/ LoadResults
    \/ SelectTest
    \/ measure_setup
    \/ measure_read
    \/ measure_read_raises
    \/ measure_safe
    \/ measure_return
    \/ CheckV
    \/ CheckVs
    \/ Calculations
    \/ ImportIb
    \/ UpdateResults
    \/ DumpResults
    \/ Continue
    \/ CalLoadResults
    \/ CalSelectTest
    \/ CalHigh
    \/ CalLow
    \/ cal_measure_setup
    \/ cal_measure_read
    \/ cal_measure_read_raises
    \/ cal_measure_safe
    \/ cal_measure_return
    \/ CalReduce
    \/ IbLoadResults
    \/ IbSelectTest
    \/ ib_measure_read
    \/ ib_measure_read_raises
    \/ IbUpdateResults
    \/ IbFit
    \/ IbStore
    \/ IzOpenInstruments
    \/ IzSelectTest
    \/ iz_read
    \/ iz_read_raises
    \/ IzUpdateResults
    \/ IzFit
    \/ IzStore

Spec == Init /\ [][Next]_vars

(***************************************************************************)
(* Properties of the acquisition.                                          *)
(***************************************************************************)
InMeasure == pc \in {"m_setup", "m_read", "m_return"}
Energized == src.oper /\ src.level # 0
StepDone == pc = "m_read" /\ n = N_READINGS

\* C1 (as claimed): whenever measure() has been left, by a return or by an
\* exception raised while readings are collected, the source is not energized.
C1_SafeOnEveryExit == ~InMeasure => ~Energized

\* C2: the steps begun so far are the first steps of the sequence
\* [0, +1, -1, 0, -1, +1, 0], each with setpoint = nominal x polarity; measure()
\* returns after exactly 7 of them; and the list of each polarity holds exactly
\* the readings accepted in steps of that polarity, in order.
ExpectedMask == <<0, 1, -1, 0, -1, 1, 0>>
C2_SevenStepsOwnList ==
    InMeasure =>
        /\ Len(visited) <= 7
        /\ \A i \in 1..Len(visited) :
              visited[i] = <<ExpectedMask[i], Vset * ExpectedMask[i]>>
        /\ pc = "m_return" => Len(visited) = 7
        /\ \A p \in Polarities :
              LET ofp(e) == e[1] = p
                  own == SelectSeq(log, ofp)
              IN  readings[p] = [i \in 1..Len(own) |-> own[i][2]]

C2_Witness ==
    /\ pc = "m_return"
    /\ Len(visited) = 7
    /\ \A p \in Polarities : readings[p] # <<>>

\* C3: the readings a step has added to its polarity's list are exactly those
\* of the values read in the step that satisfy: polarity is zero, or
\* |reading| <= 10 x |signed setpoint|.
C3_OutlierFilter ==
    pc = "m_read" =>
        LET keep(r) == pol = 0 \/ Abs(r) <= 10 * Abs(v_src)
        IN  /\ Len(readings[pol]) >= len0
            /\ SubSeq(readings[pol], len0 + 1, Len(readings[pol]))
                  = SelectSeq(step_reads, keep)

\* a non-zero step that has read 9 x setpoint (kept) and 11 x setpoint (dropped)
C3_Witness ==
    /\ pc = "m_read"
    /\ pol # 0
    /\ \E i, j \in 1..Len(step_reads) :
          /\ step_reads[i] = 9 * v_src
          /\ step_reads[j] = 11 * v_src
    /\ readings[pol][Len(readings[pol])] = 9 * v_src
    /\ Len(readings[pol]) - len0 = 1

\* C4 (as claimed): every completed non-zero step has added exactly N
\* readings to its polarity's list.
C4_ExactlyNAccepted ==
    (StepDone /\ pol # 0) => Len(readings[pol]) - len0 = N_READINGS

\* C4 (amended): a step reads the DVM exactly N times, discarded readings
\* included, and adds N minus the number of discarded readings to the list.
C4_NReadsNMinusDiscarded ==
    pc = "m_read" =>
        /\ Len(step_reads) = n
        /\ n <= N_READINGS
        /\ Len(readings[pol]) - len0 = n - ndisc

C4_Witness ==
    /\ StepDone
    /\ pol # 0
    /\ ndisc = 1
    /\ Len(readings[pol]) - len0 = N_READINGS - 1

\* C18: an acquisition always ends; while it runs it has read the DVM exactly
\* N times in every step it has completed and at most N times in the current
\* one, and when it returns it has read 7 x N times, whatever number of
\* readings was rejected.
C18_AcquisitionTerminates ==
    /\ [](pc = "m_read" =>
            /\ n <= N_READINGS
            /\ nreads = (Len(visited) - 1) * N_READINGS + n)
    /\ [](pc = "m_return" => nreads = 7 * N_READINGS)
    /\ <>(~InMeasure)

\* measure() is about to return after 7 x N reads with every reading at a
\* non-zero polarity rejected
C18_Witness ==
    /\ pc = "m_return"
    /\ nreads = 7 * N_READINGS
    /\ readings[1] = <<>>
    /\ readings[-1] = <<>>
    /\ Len(readings[0]) = 3 * N_READINGS

(***************************************************************************)
(* Properties of the scripts.                                              *)
(***************************************************************************)
NoEmptyList(d) == \A p \in Polarities : d[p] # <<>>
Mean(lst) == estimate(lst).x

\* C5 (as claimed): no entry of the store or of the results file of
\* R_input.py has undefined (NaN) degrees of freedom of Rin or Rin_approx.
C5_NoDudStored ==
    script = "R_input" =>
        /\ \A k \in DOMAIN results :
              results[k].Rin # "NaN" /\ results[k].Rin_approx # "NaN"
        /\ Bound(file) =>
              \A k \in DOMAIN Val(file) :
                 Val(file)[k].Rin # "NaN" /\ Val(file)[k].Rin_approx # "NaN"

\* C6 (as claimed): in R_input.py no reduction is made from, and the script
\* does not fail on, an acquisition that left the list of a polarity empty.
C6_EmptyListSkipsTest ==
    script = "R_input" =>
        /\ exc # "estimate"
        /\ Bound(calc) =>
              NoEmptyList(Val(V_readings)) /\ NoEmptyList(Val(Vs_readings))

\* C7 (as claimed): each acquisition of a test of R_input.py is reduced with
\* the mean of its own zero-polarity readings, unscaled.
C7_OwnDrift ==
    (script = "R_input" /\ Bound(calc)) =>
        LET c  == Val(calc)
            V  == Val(V_readings)
            Vs == Val(Vs_readings)
        IN  /\ c.Vp.x  = RSub(Mean(V[1]),  Mean(V[0]))
            /\ c.Vn.x  = RSub(Mean(V[-1]), Mean(V[0]))
            /\ c.Vsp.x = RSub(Mean(Vs[1]),  Mean(Vs[0]))
            /\ c.Vsn.x = RSub(Mean(Vs[-1]), Mean(Vs[0]))

\* C8 (as claimed): once line 293 of a low-current test has been executed, Vn
\* is the mean of the test's own negative readings minus its own zero mean.
C8_VnFromOwnReadings ==
    (script = "K6430_cal" /\ (pc = "c_update" \/ exc = "NameError")) =>
        /\ Bound(cal)
        /\ Val(cal).Vn.x = RSub(Mean(Val(v_readings)[-1]), Mean(Val(v_readings)[0]))

\* C9: when the zero, positive and negative lists of the first acquisition
\* have means o, s+o and -s+o, the signal V_av of lines 228-232 is s.
C9_DriftCancelled ==
    (script = "R_input" /\ Bound(calc)) =>
        LET V == Val(V_readings)
            o == Mean(V[0])
            s == RSub(Mean(V[1]), o)
        IN  (~Degenerate(V) /\ Mean(V[-1]) = RSub(o, s)) => Val(calc).V_av.x = s

\* a reduction with a non-zero offset o and a non-zero signal s
C9_Witness ==
    /\ script = "R_input"
    /\ Bound(calc)
    /\ ~Degenerate(Val(V_readings))
    /\ Mean(Val(V_readings)[0]) = RInt(2)
    /\ Mean(Val(V_readings)[1]) = RInt(3)
    /\ Mean(Val(V_readings)[-1]) = RInt(1)
    /\ Val(calc).V_av.x = RInt(1)

\* C10 (as claimed): whenever a script is about to start a test, or has
\* crashed, every entry of the in-memory store is in the results file.
C10_StoredAfterEveryTest ==
    pc \in {"params", "ib_params", "c_params", "crashed"} =>
        \A k \in DOMAIN results :
            /\ Bound(file)
            /\ k \in DOMAIN Val(file)
            /\ Val(file)[k] = results[k]

(***************************************************************************)
(* Properties of the store over several runs.                              *)
(***************************************************************************)
ReservedKeys == {"Ib", "Rin"}
ResistorKeys(d) == DOMAIN d \ ReservedKeys

\* C11: no step removes a key from the results file, and no step of a run
\* removes a key from the run's in-memory store: a test adds a key or
\* overwrites an entry, and every write of the file holds every key the file
\* held before, those loaded at the start of the run included.
C11_KeysNeverLost ==
    [][ /\ Bound(file) =>
              /\ Bound(file')
              /\ DOMAIN Val(file) \subseteq DOMAIN Val(file')
        /\ run' = run => DOMAIN results \subseteq DOMAIN results' ]_vars

\* a second run of R_input.py has written the file: it holds the key loaded
\* from the earlier file and the key of this run's test
C11_Witness ==
    /\ script = "R_input"
    /\ run = 2
    /\ pc = "resp"
    /\ Bound(Rin)
    /\ Bound(file)
    /\ Val(file) = results
    /\ TestKey("G493 100k", 1) \in DOMAIN Val(file)
    /\ Val(file)[TestKey("G493 100k", 1)].t < ntests
    /\ TestKey(R_name, Vset) # TestKey("G493 100k", 1)
    /\ Val(file)[TestKey(R_name, Vset)].t = ntests

\* C12 (as claimed): a results file written by Ib_Rin.py that holds a resistor
\* entry holds 'Ib_approx' for every resistor and the reserved key 'Ib'.
C12_HandoffConsumable ==
    (script = "Ib_Rin" /\ Bound(file) /\ ResistorKeys(Val(file)) # {}) =>
        /\ "Ib" \in DOMAIN Val(file)
        /\ \A r \in ResistorKeys(Val(file)) : "Ib_approx" \in DOMAIN Val(file)[r]

\* C13 (as claimed): when R_input.py fails on the Ib handoff file (absent, or
\* without the needed keys), no acquisition of the test has been made.
C13_HandoffCheckedFirst ==
    (script = "R_input" /\ exc \in {"FileNotFoundError", "KeyError"}) =>
        /\ ~Bound(V_readings)
        /\ ~Bound(Vs_readings)

\* C14 (as claimed): once the open of an instrument has failed in a run, the
\* measurement loop is not entered, no test is started and no command is
\* written to an instrument.
C14_FailedOpenIsFatal ==
    failed_open # {} =>
        /\ pc \in {"load", "crashed"}
        /\ late_cmds = <<>>

\* C15 (as claimed): a fit is attempted only from 2 or more resistor entries,
\* and with fewer the store gets no 'Ib' / 'Rin' entry.
C15_FitNeedsTwoResistors ==
    /\ Bound(inv_R) => Cardinality(Val(inv_R) \ ReservedKeys) >= 2
    /\ Cardinality(ResistorKeys(results)) < 2 => DOMAIN results \cap ReservedKeys = {}

\* C16: in Ib_Rin.py, in every run, the points of a fit are the resistor
\* entries of the store, more than 3 of them, never 'Ib' or 'Rin'; and the
\* store or the file holds 'Ib' or 'Rin' only with more than 3 resistor entries.
C16_FitFromResistorsOnly ==
    script = "Ib_Rin" =>
        /\ Bound(inv_R) =>
              /\ Val(inv_R) = ResistorKeys(results)
              /\ Cardinality(Val(inv_R)) > 3
        /\ DOMAIN results \cap ReservedKeys # {} =>
              Cardinality(ResistorKeys(results)) > 3
        /\ (Bound(file) /\ DOMAIN Val(file) \cap ReservedKeys # {}) =>
              Cardinality(ResistorKeys(Val(file))) > 3

\* a second run that loaded 'Ib' and 'Rin' from the file of the first, and
\* has made its fit
C16_Witness ==
    /\ script = "Ib_Rin"
    /\ run = 2
    /\ pc = "ib_store"
    /\ Bound(file)
    /\ ReservedKeys \subseteq DOMAIN Val(file)
    /\ Bound(inv_R)
    /\ Cardinality(Val(inv_R)) = 4

\* C17 (as claimed): a high-current test of the source calibration does not
\* end in a KeyError: its acquisition runs.
C17_HighCurrentAcquires ==
    (script = "K6430_cal" /\ DOMAIN test_dict = {"Iset"}) => exc # "KeyError"

\* C20 (as claimed): in a low-current test of the source calibration the
\* readings a non-zero step has added are those of the values read that are at
\* most 10 x the expected voltage |i_src| x R_nom.
C20_ThresholdInReadingUnit ==
    (script = "K6430_cal" /\ pc = "m_read" /\ pol # 0 /\ "Vrng" \in DOMAIN test_dict) =>
        LET expected == Abs(v_src) * R_NOM[Val(test_dict["Rname"])]
            keep(r) == Abs(r) <= 10 * expected
        IN  SubSeq(readings[pol], len0 + 1, Len(readings[pol]))
               = SelectSeq(step_reads, keep)

(***************************************************************************)
(* Properties of the reduction.                                            *)
(***************************************************************************)
\* C19: a signal reduced from lists of 2 or more readings each is the mean
\* of the zero readings minus the mean of the negative readings, whatever the
\* positive readings are.
C19_SignalFromZeroAndNegative ==
    (script = "R_input" /\ Bound(calc) /\ ~Degenerate(Val(V_readings))) =>
        Val(calc).V_av.x = RSub(Mean(Val(V_readings)[0]), Mean(Val(V_readings)[-1]))

\* a reduction where the positive mean (3) is not the mirror of the negative
\* mean (0) about the zero mean (1): the signal is 1 - 0
C19_Witness ==
    /\ script = "R_input"
    /\ Bound(calc)
    /\ Mean(Val(V_readings)[0]) = RInt(1)
    /\ Mean(Val(V_readings)[1]) = RInt(3)
    /\ Mean(Val(V_readings)[-1]) = RInt(0)
    /\ Val(calc).V_av.x = RInt(1)

====
